---- MODULE Spec2Model ----
(***************************************************************************)
(* A model of dcompass: the upstream registry of droute                    *)
(* (src/droute/src/router/upstreams.rs: Upstreams::new, check, traverse,   *)
(* resolve) and the server's main task                                     *)
(* (src/dcompass/src/main.rs: main, serve and the worker tasks it spawns). *)
(***************************************************************************)
EXTENDS Integers, Sequences, FiniteSets, TLC

----------------------------------------------------------------------------
(* Bounds *)

\* Longest upstream list handed to Upstreams::new.
MaxList == 4
\* Most member labels a hybrid upstream names.
MaxMembers == 2

\* Most worker tasks serve spawns in one run.
MaxWorkers == 4
\* Largest configured ratelimit (queries per second).
MaxRate == 2
\* Last instant of the clock, in replenish intervals (1 s / ratelimit).
MaxTime == 1
\* Most failed receives in one run.
MaxErrs == 1

\* The labels the entries of an upstream list may define.
Labels == {"a", "b", "c"}
\* The labels a hybrid may name: those, and one that no entry defines.
RefLabels == Labels \cup {"x"}

----------------------------------------------------------------------------
(* Values *)

\* Upstream::Others (a leaf) and Upstream::Hybrid(v).
Leaf == [hybrid |-> FALSE, v |-> <<>>]
Hybrid(v) == [hybrid |-> TRUE, v |-> v]

SeqsUpTo(S, k) == UNION {[1..i -> S] : i \in 0..k}

\* The upstreams an entry may hold when hybrids name labels of L.
Upstream(L) == {Leaf} \cup {Hybrid(v) : v \in SeqsUpTo(L, MaxMembers)}

\* Result<_, UpstreamError> of the registry's construction.
NoneYet == [kind |-> "None", label |-> "-"]
OkUnit == [kind |-> "Ok", label |-> "-"]
Err(kind, label) == [kind |-> kind, label |-> label]

GraphErrors == {"MissingTag", "EmptyHybrid", "HybridRecursion"}

\* A future that has not returned: Poll::Pending.
Pending == [st |-> "pending", by |-> "-"]

\* The empty HashMap.
EmptyMap == [x \in {} |-> Leaf]

\* Vec::remove(idx).
Remove(s, i) == [j \in 1..(Len(s) - 1) |-> IF j < i THEN s[j] ELSE s[j + 1]]

Range(s) == {s[i] : i \in 1..Len(s)}

VARIABLES
    pc,       \* where Upstreams::new / resolve stands
    r,        \* the HashMap<Label, Upstream> being built, then self.upstreams
    n,        \* entries of the input list consumed so far
    u,        \* label of the entry consumed last
    todo,     \* labels self.upstreams.iter() has not yielded yet
    root,     \* the label check() passed to traverse last
    result,   \* what Upstreams::new returned
    tag,      \* the label resolve was called with
    leaf,     \* each leaf's Upstream::resolve: "pending", "ok" or "err"
    inner,    \* each hybrid's SelectOk.inner: the member futures still held
    out,      \* what resolve(label, msg) has returned so far, per label
    mpc,      \* where main stands
    validate, \* args.validate
    sigint,   \* Ctrl-C has been delivered to the process
    ready,    \* the info line "Dcompass ready!" has been logged
    socket,   \* the UDP socket: "unbound", "bound" or "failed"
    spc,      \* where the serve future stands
    lastrecv, \* how the last socket.recv_from ended
    workers,  \* each spawned task: "idle" (not spawned), "run", "done", "aborted"
    mail,     \* per worker: a shutdown token is queued for its receiver
    rx_cnt,   \* tx.receiver_count()
    sent,     \* workers whose response went out on the socket
    built,    \* how init() ended: "none", "ok" or "err"
    ratelimit, \* p.ratelimit, the NonZeroU32 of the configuration
    now,      \* the limiter's clock, in replenish intervals (1 s / ratelimit)
    tat,      \* the limiter's state: the theoretical arrival time (GCRA)
    dispatched, \* per instant: the worker tasks serve spawned at it
    nerr,     \* socket.recv_from calls that returned Err
    awaits,   \* ratelimit.until_ready() calls that returned
    polls,    \* polls of resolve(tag, msg) that saw a member return
    round     \* per label: the poll in which its resolve returned (0: not yet)

uvars == <<pc, r, n, u, todo, root, result, tag, leaf, inner, out>>

mvars == <<mpc, validate, sigint, ready, socket, spc, lastrecv, workers, mail,
           rx_cnt, sent>>

tvars == <<built, ratelimit, now, tat, dispatched, nerr, awaits>>

hvars == <<polls, round>>

vars == <<uvars, mvars, tvars, hvars>>

----------------------------------------------------------------------------
(* Upstreams::traverse *)

RECURSIVE traverse(_, _, _), traverse_members(_, _, _, _)

\* for t in v { self.traverse(l, t)? }
traverse_members(ups, l, v, i) ==
    IF i > Len(v) THEN [l |-> l, res |-> OkUnit]
    ELSE LET t == traverse(ups, l, v[i]) IN
         IF t.res.kind # "Ok" THEN t
         ELSE traverse_members(ups, t.l, v, i + 1)

\* traverse with the lookup's ok_or_else(MissingTag)? left out: a label the map
\* does not hold is passed over like a leaf.
traverse_skips_missing(ups, l, t) ==
    IF t \in l THEN [l |-> l, res |-> Err("HybridRecursion", t)]
    ELSE LET l1 == l \cup {t} IN
         IF t \notin DOMAIN ups THEN [l |-> l1, res |-> OkUnit]
         ELSE IF ups[t].hybrid
              THEN IF ups[t].v = <<>>
                   THEN [l |-> l1, res |-> Err("EmptyHybrid", t)]
                   ELSE traverse_members(ups, l1, ups[t].v, 1)
              ELSE [l |-> l1, res |-> OkUnit]

\* traverse testing the visited set where a hybrid names its members, so that
\* the error carries the hybrid that closes the cycle, not the label revisited.
traverse_names_parent(ups, l, t) ==
    IF t \in l THEN [l |-> l, res |-> Err("HybridRecursion", t)]
    ELSE LET l1 == l \cup {t} IN
         IF t \notin DOMAIN ups THEN [l |-> l1, res |-> Err("MissingTag", t)]
         ELSE IF ups[t].hybrid
              THEN IF ups[t].v = <<>>
                   THEN [l |-> l1, res |-> Err("EmptyHybrid", t)]
                   ELSE IF Range(ups[t].v) \cap l1 # {}
                        THEN [l |-> l1, res |-> Err("HybridRecursion", t)]
                        ELSE traverse_members(ups, l1, ups[t].v, 1)
              ELSE [l |-> l1, res |-> OkUnit]

\* The visited set l is shared by the whole walk from one root and is never
\* shrunk when the walk returns from a member.
traverse(ups, l, t) ==
    IF t \in l THEN [l |-> l, res |-> Err("HybridRecursion", t)]
    ELSE LET l1 == l \cup {t} IN
         IF t \notin DOMAIN ups THEN [l |-> l1, res |-> Err("MissingTag", t)]
         ELSE IF ups[t].hybrid
              THEN IF ups[t].v = <<>>
                   THEN [l |-> l1, res |-> Err("EmptyHybrid", t)]
                   ELSE traverse_members(ups, l1, ups[t].v, 1)
              ELSE [l |-> l1, res |-> OkUnit]

----------------------------------------------------------------------------
(* Upstreams::new and Upstreams::check *)

ResolveIdle == [x \in Labels |-> "pending"]
NoInner == [x \in Labels |-> <<>>]
NoOut == [x \in Labels |-> Pending]

\* The main task is not part of the registry's specification.
MainOff ==
    /\ mpc = "off"
    /\ validate = FALSE
    /\ sigint = FALSE
    /\ ready = FALSE
    /\ socket = "unbound"
    /\ spc = "none"
    /\ lastrecv = "none"
    /\ workers = <<>>
    /\ mail = <<>>
    /\ rx_cnt = 0
    /\ sent = {}
    /\ built = "none"
    /\ ratelimit = 1
    /\ now = 0
    /\ tat = 0
    /\ dispatched = <<>>
    /\ nerr = 0
    /\ awaits = 0

NoRound == [x \in Labels |-> 0]

Init ==
    /\ MainOff
    /\ polls = 0
    /\ round = NoRound
    /\ pc = "new"
    /\ r = EmptyMap
    /\ n = 0
    /\ u = "-"
    /\ todo = {}
    /\ root = "-"
    /\ result = NoneYet
    /\ tag = "-"
    /\ leaf = ResolveIdle
    /\ inner = NoInner
    /\ out = NoOut

\* One iteration of `for u in upstreams`, the None arm of the match: the next
\* entry (label, up) of the list has a label the map does not hold yet.
new_insert(label, up) ==
    /\ pc = "new"
    /\ n < MaxList
    /\ label \notin DOMAIN r
    /\ n' = n + 1
    /\ u' = label
    /\ r' = [x \in DOMAIN r \cup {label} |-> IF x = label THEN up ELSE r[x]]
    /\ UNCHANGED <<pc, todo, root, result, tag, leaf, inner, out>>
    /\ UNCHANGED <<mvars, tvars>>
    /\ UNCHANGED hvars

\* The Some arm without its return: the repeated entry is passed over and the
\* loop goes on.
new_multiple_def_ignored(label) ==
    /\ pc = "new"
    /\ n < MaxList
    /\ label \in DOMAIN r
    /\ n' = n + 1
    /\ u' = label
    /\ UNCHANGED <<pc, r, todo, root, result, tag, leaf, inner, out>>
    /\ UNCHANGED <<mvars, tvars>>
    /\ UNCHANGED hvars

\* One iteration of `for u in upstreams`, the Some arm of the match: the next
\* entry's label is in the map already, whatever upstream the entry holds.
new_multiple_def(label) ==
    /\ pc = "new"
    /\ n < MaxList
    /\ label \in DOMAIN r
    /\ n' = n + 1
    /\ u' = label
    /\ result' = Err("MultipleDef", label)
    /\ pc' = "done"
    /\ UNCHANGED <<r, todo, root, tag, leaf, inner, out>>
    /\ UNCHANGED <<mvars, tvars>>
    /\ UNCHANGED hvars

\* The list is exhausted: `let u = Self { upstreams: r }` (the loop's u is gone)
\* and u.check() starts iterating.
new_check ==
    /\ pc = "new"
    /\ pc' = "check"
    /\ todo' = DOMAIN r
    /\ u' = "-"
    /\ UNCHANGED <<r, n, root, result, tag, leaf, inner, out>>
    /\ UNCHANGED <<mvars, tvars>>
    /\ UNCHANGED hvars

\* check goes on to the next key whatever traverse returned.
check_iter_ignores_error(t) ==
    /\ pc = "check"
    /\ t \in todo
    /\ root' = t
    /\ todo' = todo \ {t}
    /\ UNCHANGED <<result, pc>>
    /\ UNCHANGED <<r, n, u, tag, leaf, inner, out>>
    /\ UNCHANGED <<mvars, tvars>>
    /\ UNCHANGED hvars

\* One iteration of `for (tag, _) in self.upstreams.iter()`: the hash map yields
\* its keys in an order the program does not control.
check_iter(t) ==
    /\ pc = "check"
    /\ t \in todo
    /\ root' = t
    /\ LET w == traverse(r, {}, t) IN
       IF w.res.kind # "Ok"
       THEN /\ result' = w.res
            /\ pc' = "done"
            /\ todo' = todo
       ELSE /\ todo' = todo \ {t}
            /\ UNCHANGED <<result, pc>>
    /\ UNCHANGED <<r, n, u, tag, leaf, inner, out>>
    /\ UNCHANGED <<mvars, tvars>>
    /\ UNCHANGED hvars

\* check returns Ok as soon as one root has passed.
check_ok_after_first ==
    /\ pc = "check"
    /\ todo # DOMAIN r \/ todo = {}
    /\ result' = OkUnit
    /\ pc' = "done"
    /\ UNCHANGED <<r, n, u, todo, root, tag, leaf, inner, out>>
    /\ UNCHANGED <<mvars, tvars>>
    /\ UNCHANGED hvars

\* check() returned Ok(true): Upstreams::new returns Ok(u).
check_ok ==
    /\ pc = "check"
    /\ todo = {}
    /\ result' = OkUnit
    /\ pc' = "done"
    /\ UNCHANGED <<r, n, u, todo, root, tag, leaf, inner, out>>
    /\ UNCHANGED <<mvars, tvars>>
    /\ UNCHANGED hvars

----------------------------------------------------------------------------
(* Upstreams::resolve *)

\* resolve(t, msg) panicked: the task polling it unwinds.
Panic(t) == [st |-> "panic", by |-> t]

RECURSIVE resolve_poll(_, _, _, _), select_ok_poll(_, _, _, _, _)

\* A race the first member to complete wins, error or not (select_all in
\* place of select_ok).
select_first_poll(ups, h, s, lf, i) ==
    IF i > Len(s.inner[h]) THEN s
    ELSE LET m == s.inner[h][i]
             s1 == resolve_poll(ups, m, s, lf)
             o == s1.out[m]
         IN  IF o.st = "pending" THEN select_ok_poll(ups, h, s1, lf, i + 1)
             ELSE [inner |-> [s1.inner EXCEPT ![h] = <<>>],
                   out |-> [s1.out EXCEPT ![h] = o]]

\* resolve with the race's error replaced by a default response instead of
\* being returned by `?`.
resolve_poll_swallows(ups, t, s, lf) ==
    IF t \notin DOMAIN ups \/ (ups[t].hybrid /\ ups[t].v = <<>>)
    THEN [s EXCEPT !.out[t] = Panic(t)]
    ELSE IF ups[t].hybrid
         THEN LET s1 == select_ok_poll(ups, t, s, lf, 1) IN
              IF s1.out[t].st = "err"
              THEN [s1 EXCEPT !.out[t] = [st |-> "ok", by |-> "-"]]
              ELSE s1
         ELSE IF lf[t] = "pending" THEN s
              ELSE [s EXCEPT !.out[t] = [st |-> lf[t], by |-> t]]

\* A race that scans its member futures from the last to the first.
select_ok_poll_reversed(ups, h, s, lf, i) ==
    IF i > Len(s.inner[h]) THEN s
    ELSE LET j == Len(s.inner[h]) + 1 - i
             m == s.inner[h][j]
             s1 == resolve_poll(ups, m, s, lf)
             o == s1.out[m]
             rest == Remove(s1.inner[h], j)
         IN  IF o.st = "pending" THEN select_ok_poll(ups, h, s1, lf, i + 1)
             ELSE IF o.st \in {"ok", "panic"}
                  THEN [inner |-> [s1.inner EXCEPT ![h] = <<>>],
                        out |-> [s1.out EXCEPT ![h] = o]]
                  ELSE IF rest = <<>>
                       THEN [inner |-> [s1.inner EXCEPT ![h] = rest],
                             out |-> [s1.out EXCEPT ![h] = o]]
                       ELSE select_ok_poll(ups, h,
                                [s1 EXCEPT !.inner[h] = rest], lf, 1)

\* One poll of the SelectOk future of hybrid h (futures::future::select_ok):
\* poll the held member futures in order up to the first that is ready and
\* remove it; a success is returned at once and the rest is dropped, an error
\* is returned only when it leaves no member future, otherwise the scan starts
\* again.  s = [inner, out]; lf is what each leaf's own resolve has produced.
select_ok_poll(ups, h, s, lf, i) ==
    IF i > Len(s.inner[h]) THEN s
    ELSE LET m == s.inner[h][i]
             s1 == resolve_poll(ups, m, s, lf)
             o == s1.out[m]
             rest == Remove(s1.inner[h], i)
         IN  IF o.st = "pending" THEN select_ok_poll(ups, h, s1, lf, i + 1)
             ELSE IF o.st \in {"ok", "panic"}
                  THEN [inner |-> [s1.inner EXCEPT ![h] = <<>>],
                        out |-> [s1.out EXCEPT ![h] = o]]
                  ELSE IF rest = <<>>
                       THEN [inner |-> [s1.inner EXCEPT ![h] = rest],
                             out |-> [s1.out EXCEPT ![h] = o]]
                       ELSE select_ok_poll(ups, h,
                                [s1 EXCEPT !.inner[h] = rest], lf, 1)

\* One poll of the future resolve(t, msg).  The lookup's unwrap panics on an
\* undefined label, select_ok panics on an empty list of futures.
resolve_poll(ups, t, s, lf) ==
    IF t \notin DOMAIN ups \/ (ups[t].hybrid /\ ups[t].v = <<>>)
    THEN [s EXCEPT !.out[t] = Panic(t)]
    ELSE IF ups[t].hybrid
         THEN select_ok_poll(ups, t, s, lf, 1)
         ELSE IF lf[t] = "pending" THEN s
              ELSE [s EXCEPT !.out[t] = [st |-> lf[t], by |-> t]]

\* resolve(t, msg) is called on the registry Upstreams::new returned.
resolve_call(t) ==
    /\ pc = "done"
    /\ result = OkUnit
    /\ t \in DOMAIN r
    /\ pc' = "resolve"
    /\ tag' = t
    /\ inner' = [x \in Labels |-> IF x \in DOMAIN r THEN r[x].v ELSE <<>>]
    /\ UNCHANGED <<r, n, u, todo, root, result, leaf, out>>
    /\ UNCHANGED <<mvars, tvars>>
    /\ UNCHANGED hvars

\* A leaf's Upstream::resolve(msg) completes, with a response or an error.
leaf_complete(t, how) ==
    /\ pc = "resolve"
    /\ t \in DOMAIN r
    /\ ~r[t].hybrid
    /\ leaf[t] = "pending"
    /\ leaf' = [leaf EXCEPT ![t] = how]
    /\ UNCHANGED <<pc, r, n, u, todo, root, result, tag, inner, out>>
    /\ UNCHANGED <<mvars, tvars>>
    /\ UNCHANGED hvars

\* The task awaiting resolve(tag, msg) polls it.  polls counts the polls in
\* which some future completed, round[x] is the poll in which resolve(x, msg)
\* completed.
resolve_step ==
    /\ pc = "resolve"
    /\ LET s == resolve_poll(r, tag, [inner |-> inner, out |-> out], leaf) IN
       /\ inner' = s.inner
       /\ out' = s.out
       /\ pc' = IF s.out[tag].st = "pending" THEN "resolve" ELSE "resolved"
       /\ polls' = IF s.out = out THEN polls ELSE polls + 1
       /\ round' = [x \in Labels |->
                      IF out[x].st = "pending" /\ s.out[x].st # "pending"
                      THEN polls + 1 ELSE round[x]]
    /\ UNCHANGED <<r, n, u, todo, root, result, tag, leaf>>
    /\ UNCHANGED <<mvars, tvars>>

----------------------------------------------------------------------------
(* main, serve and the worker tasks *)

Workers == 1..MaxWorkers

Live == {w \in Workers : workers[w] = "run"}
Spawned == {w \in Workers : workers[w] # "idle"}

\* The process has not returned from main (the runtime still runs the tasks).
Alive == mpc \notin {"off", "exit_ok", "exit_err"}

\* The registry is not part of the main task's specification.
UpOff ==
    /\ pc = "off"
    /\ r = EmptyMap
    /\ n = 0
    /\ u = "-"
    /\ todo = {}
    /\ root = "-"
    /\ result = NoneYet
    /\ tag = "-"
    /\ leaf = ResolveIdle
    /\ inner = NoInner
    /\ out = NoOut
    /\ polls = 0
    /\ round = NoRound

InitMain ==
    /\ UpOff
    /\ mpc = "config"
    /\ validate \in BOOLEAN
    /\ sigint = FALSE
    /\ ready = FALSE
    /\ socket = "unbound"
    /\ spc = "none"
    /\ lastrecv = "none"
    /\ workers = [w \in Workers |-> "idle"]
    /\ mail = [w \in Workers |-> FALSE]
    /\ rx_cnt = 0
    /\ sent = {}
    /\ built = "none"
    /\ ratelimit \in 1..MaxRate
    /\ now = 0
    /\ tat = 0
    /\ dispatched = [i \in 0..MaxTime |-> 0]
    /\ nerr = 0
    /\ awaits = 0

\* The configuration text is read (from -c, ./config.yaml or the built-in one).
main_config(ok) ==
    /\ mpc = "config"
    /\ mpc' = IF ok THEN "init" ELSE "exit_err"
    /\ UNCHANGED <<validate, sigint, ready, socket, spc, lastrecv, workers, mail,
                   rx_cnt, sent>>
    /\ UNCHANGED <<uvars, hvars>>
    /\ UNCHANGED tvars

\* serde_yaml::from_str and init(): the router is constructed.
main_init(ok) ==
    /\ mpc = "init"
    /\ mpc' = IF ok THEN "validate" ELSE "exit_err"
    /\ built' = IF ok THEN "ok" ELSE "err"
    /\ UNCHANGED <<validate, sigint, ready, socket, spc, lastrecv, workers, mail,
                   rx_cnt, sent>>
    /\ UNCHANGED <<uvars, hvars>>
    /\ UNCHANGED <<ratelimit, now, tat, dispatched, nerr, awaits>>

\* args.validate is not looked at.
main_validate_ignored ==
    /\ mpc = "validate"
    /\ mpc' = "logger"
    /\ UNCHANGED <<validate, sigint, ready, socket, spc, lastrecv, workers, mail,
                   rx_cnt, sent>>
    /\ UNCHANGED <<uvars, hvars>>
    /\ UNCHANGED tvars

\* if args.validate { return Ok(()) }
main_validate ==
    /\ mpc = "validate"
    /\ mpc' = IF validate THEN "exit_ok" ELSE "logger"
    /\ UNCHANGED <<validate, sigint, ready, socket, spc, lastrecv, workers, mail,
                   rx_cnt, sent>>
    /\ UNCHANGED <<uvars, hvars>>
    /\ UNCHANGED tvars

\* SimpleLogger::new()...init()?
main_logger(ok) ==
    /\ mpc = "logger"
    /\ mpc' = IF ok THEN "ready" ELSE "exit_err"
    /\ UNCHANGED <<validate, sigint, ready, socket, spc, lastrecv, workers, mail,
                   rx_cnt, sent>>
    /\ UNCHANGED <<uvars, hvars>>
    /\ UNCHANGED tvars

\* The rate limiter is built and info!("Dcompass ready!") is logged.
main_ready ==
    /\ mpc = "ready"
    /\ ready' = TRUE
    /\ mpc' = "bind"
    /\ UNCHANGED <<validate, sigint, socket, spc, lastrecv, workers, mail,
                   rx_cnt, sent>>
    /\ UNCHANGED <<uvars, hvars>>
    /\ UNCHANGED tvars

\* UdpSocket::bind(addr); on success the broadcast channel is created (its
\* first receiver is dropped at once) and select! starts polling serve.
main_bind(ok) ==
    /\ mpc = "bind"
    /\ IF ok
       THEN /\ socket' = "bound"
            /\ mpc' = "serve"
            /\ spc' = "recv"
            /\ rx_cnt' = 0
       ELSE /\ socket' = "failed"
            /\ mpc' = "exit_err"
            /\ UNCHANGED <<spc, rx_cnt>>
    /\ UNCHANGED <<validate, sigint, ready, lastrecv, workers, mail, sent>>
    /\ UNCHANGED <<uvars, hvars>>
    /\ UNCHANGED tvars

\* The operator presses Ctrl-C while the server runs.
ctrl_c ==
    /\ mpc = "serve"
    /\ ~sigint
    /\ sigint' = TRUE
    /\ UNCHANGED <<mpc, validate, ready, socket, spc, lastrecv, workers, mail,
                   rx_cnt, sent>>
    /\ UNCHANGED <<uvars, hvars>>
    /\ UNCHANGED tvars

\* serve receives the next datagram without awaiting the limiter.
serve_recv_no_limiter(ok) ==
    /\ Alive
    /\ spc = "recv"
    /\ IF ok
       THEN /\ \E w \in Workers :
                 /\ workers[w] = "idle"
                 /\ \A x \in Workers : x < w => workers[x] # "idle"
                 /\ workers' = [workers EXCEPT ![w] = "run"]
            /\ rx_cnt' = rx_cnt + 1
            /\ spc' = "recv"
            /\ lastrecv' = "ok"
            /\ dispatched' = [dispatched EXCEPT ![now] = @ + 1]
            /\ nerr' = nerr
       ELSE /\ nerr < MaxErrs
            /\ lastrecv' = "err"
            /\ nerr' = nerr + 1
            /\ UNCHANGED <<workers, rx_cnt, spc, dispatched>>
    /\ UNCHANGED <<mpc, validate, sigint, ready, socket, mail, sent>>
    /\ UNCHANGED <<uvars, hvars>>
    /\ UNCHANGED <<built, ratelimit, now, tat, awaits>>

\* serve returns on a receive error instead of continuing.
serve_recv_err_returns(ok) ==
    /\ Alive
    /\ spc = "recv"
    /\ IF ok
       THEN /\ \E w \in Workers :
                 /\ workers[w] = "idle"
                 /\ \A x \in Workers : x < w => workers[x] # "idle"
                 /\ workers' = [workers EXCEPT ![w] = "run"]
            /\ rx_cnt' = rx_cnt + 1
            /\ spc' = "limit"
            /\ lastrecv' = "ok"
            /\ dispatched' = [dispatched EXCEPT ![now] = @ + 1]
            /\ nerr' = nerr
       ELSE /\ nerr < MaxErrs
            /\ lastrecv' = "err"
            /\ nerr' = nerr + 1
            /\ spc' = "dropped"
            /\ UNCHANGED <<workers, rx_cnt, dispatched>>
    /\ UNCHANGED <<mpc, validate, sigint, ready, socket, mail, sent>>
    /\ UNCHANGED <<uvars, hvars>>
    /\ UNCHANGED <<built, ratelimit, now, tat, awaits>>

\* serve: socket.recv_from returns.  On Ok the task is subscribed to the
\* shutdown channel and spawned, and serve goes on to the rate limiter; on Err
\* a warning is logged and the loop continues.
serve_recv(ok) ==
    /\ Alive
    /\ spc = "recv"
    /\ IF ok
       THEN /\ \E w \in Workers :
                 /\ workers[w] = "idle"
                 /\ \A x \in Workers : x < w => workers[x] # "idle"
                 /\ workers' = [workers EXCEPT ![w] = "run"]
            /\ rx_cnt' = rx_cnt + 1
            /\ spc' = "limit"
            /\ lastrecv' = "ok"
            /\ dispatched' = [dispatched EXCEPT ![now] = @ + 1]
            /\ nerr' = nerr
       ELSE /\ nerr < MaxErrs
            /\ lastrecv' = "err"
            /\ nerr' = nerr + 1
            /\ UNCHANGED <<workers, rx_cnt, spc, dispatched>>
    /\ UNCHANGED <<mpc, validate, sigint, ready, socket, mail, sent>>
    /\ UNCHANGED <<uvars, hvars>>
    /\ UNCHANGED <<built, ratelimit, now, tat, awaits>>

\* A limiter that lets every cell through.
limiter_never_blocks(t0) == TRUE

\* The limiter RateLimiter::direct(Quota::per_second(ratelimit)) of the
\* governor crate (GCRA): a burst of `ratelimit` cells, one cell replenished
\* every 1 s / ratelimit.  With the clock counted in replenish intervals, a
\* cell conforms at instant t0 when t0 >= tat + 1 - ratelimit.
limiter_conforms(t0) == t0 + ratelimit >= tat + 1

\* The state the limiter is left in by a cell taken at instant t0.
limiter_take(t0) == (IF tat > t0 THEN tat ELSE t0) + 1

\* The clock advances by one replenish interval while serve runs.
tick ==
    /\ mpc = "serve"
    /\ now < MaxTime
    /\ now' = now + 1
    /\ UNCHANGED <<built, ratelimit, tat, dispatched, nerr, awaits>>
    /\ UNCHANGED mvars
    /\ UNCHANGED <<uvars, hvars>>

\* serve: ratelimit.until_ready().await returns: a cell conforms and is taken.
serve_until_ready ==
    /\ Alive
    /\ spc = "limit"
    /\ limiter_conforms(now)
    /\ tat' = limiter_take(now)
    /\ awaits' = awaits + 1
    /\ spc' = "recv"
    /\ UNCHANGED <<mpc, validate, sigint, ready, socket, lastrecv, workers, mail,
                   rx_cnt, sent>>
    /\ UNCHANGED <<uvars, hvars>>
    /\ UNCHANGED <<built, ratelimit, now, dispatched, nerr>>

\* The Ctrl-C branch with the serve future left running (as if serve had been
\* spawned rather than raced in the select!).
main_ctrl_c_keeps_serve ==
    /\ mpc = "serve"
    /\ sigint
    /\ mpc' = "send"
    /\ UNCHANGED <<validate, sigint, ready, socket, spc, lastrecv, workers, mail,
                   rx_cnt, sent>>
    /\ UNCHANGED <<uvars, hvars>>
    /\ UNCHANGED tvars

\* select! takes the signal::ctrl_c() branch: the serve future is dropped and
\* the handler starts.
main_ctrl_c ==
    /\ mpc = "serve"
    /\ sigint
    /\ mpc' = "send"
    /\ spc' = "dropped"
    /\ UNCHANGED <<validate, sigint, ready, socket, lastrecv, workers, mail,
                   rx_cnt, sent>>
    /\ UNCHANGED <<uvars, hvars>>
    /\ UNCHANGED tvars

\* The token does not reach the receivers.
main_send_undelivered ==
    /\ mpc = "send"
    /\ mpc' = IF rx_cnt = 0 THEN "graceful" ELSE "wait"
    /\ mail' = mail
    /\ UNCHANGED <<validate, sigint, ready, socket, spc, lastrecv, workers,
                   rx_cnt, sent>>
    /\ UNCHANGED <<uvars, hvars>>
    /\ UNCHANGED tvars

\* tx.send(()): Err when there is no receiver, else every receiver gets the token.
main_send ==
    /\ mpc = "send"
    /\ IF rx_cnt = 0
       THEN /\ mpc' = "graceful"
            /\ mail' = mail
       ELSE /\ mpc' = "wait"
            /\ mail' = [w \in Workers |-> mail[w] \/ workers[w] = "run"]
    /\ UNCHANGED <<validate, sigint, ready, socket, spc, lastrecv, workers,
                   rx_cnt, sent>>
    /\ UNCHANGED <<uvars, hvars>>
    /\ UNCHANGED tvars

\* The wait loop with its test inverted.
main_wait_inverted ==
    /\ mpc = "wait"
    /\ mpc' = IF rx_cnt = 0 THEN "sleep" ELSE "graceful"
    /\ UNCHANGED <<validate, sigint, ready, socket, spc, lastrecv, workers, mail,
                   rx_cnt, sent>>
    /\ UNCHANGED <<uvars, hvars>>
    /\ UNCHANGED tvars

\* while tx.receiver_count() != 0 { warn!(...); sleep(5 s) ... }
main_wait ==
    /\ mpc = "wait"
    /\ mpc' = IF rx_cnt # 0 THEN "sleep" ELSE "graceful"
    /\ UNCHANGED <<validate, sigint, ready, socket, spc, lastrecv, workers, mail,
                   rx_cnt, sent>>
    /\ UNCHANGED <<uvars, hvars>>
    /\ UNCHANGED tvars

\* sleep(Duration::from_secs(5)).await returns.
main_sleep ==
    /\ mpc = "sleep"
    /\ mpc' = "wait"
    /\ UNCHANGED <<validate, sigint, ready, socket, spc, lastrecv, workers, mail,
                   rx_cnt, sent>>
    /\ UNCHANGED <<uvars, hvars>>
    /\ UNCHANGED tvars

\* warn!("Gracefully shut down!") and main returns Ok(()).
main_graceful ==
    /\ mpc = "graceful"
    /\ mpc' = "exit_ok"
    /\ UNCHANGED <<validate, sigint, ready, socket, spc, lastrecv, workers, mail,
                   rx_cnt, sent>>
    /\ UNCHANGED <<uvars, hvars>>
    /\ UNCHANGED tvars

\* worker(router, socket, &buf, src): the router is invoked, the response is
\* encoded and, as its last step, sent back to src; on an error no response
\* is sent.  The task does not suspend between the send and its return.
worker_respond(w, res) == IF res = "ok" THEN sent \cup {w} ELSE sent

\* A spawned task: the worker(...) branch of its select! completes; the task
\* ends and its receiver is dropped.  res = "ok": the response was sent.
worker_finish(w, res) ==
    /\ Alive
    /\ workers[w] = "run"
    /\ workers' = [workers EXCEPT ![w] = "done"]
    /\ sent' = worker_respond(w, res)
    /\ mail' = [mail EXCEPT ![w] = FALSE]
    /\ rx_cnt' = rx_cnt - 1
    /\ UNCHANGED <<mpc, validate, sigint, ready, socket, spc, lastrecv>>
    /\ UNCHANGED <<uvars, hvars>>
    /\ UNCHANGED tvars

\* The shutdown branch with a response sent all the same.
worker_shutdown_responds(w) ==
    /\ Alive
    /\ workers[w] = "run"
    /\ mail[w]
    /\ workers' = [workers EXCEPT ![w] = "aborted"]
    /\ mail' = [mail EXCEPT ![w] = FALSE]
    /\ rx_cnt' = rx_cnt - 1
    /\ sent' = sent \cup {w}
    /\ UNCHANGED <<mpc, validate, sigint, ready, socket, spc, lastrecv>>
    /\ UNCHANGED <<uvars, hvars>>
    /\ UNCHANGED tvars

\* A spawned task: shutdown.recv() yields the token; the task ends without
\* responding and its receiver is dropped.
worker_shutdown(w) ==
    /\ Alive
    /\ workers[w] = "run"
    /\ mail[w]
    /\ workers' = [workers EXCEPT ![w] = "aborted"]
    /\ mail' = [mail EXCEPT ![w] = FALSE]
    /\ rx_cnt' = rx_cnt - 1
    /\ UNCHANGED <<mpc, validate, sigint, ready, socket, spc, lastrecv, sent>>
    /\ UNCHANGED <<uvars, hvars>>
    /\ UNCHANGED tvars

NextMain ==
    \/ \E ok \in BOOLEAN : main_config(ok)
    \/ \E ok \in BOOLEAN : main_init(ok)
    \/ main_validate
    \/ \E ok \in BOOLEAN : main_logger(ok)
    \/ main_ready
    \/ \E ok \in BOOLEAN : main_bind(ok)
    \/ ctrl_c
    \/ \E ok \in BOOLEAN : serve_recv(ok)
    \/ serve_until_ready
    \/ tick
    \/ main_ctrl_c
    \/ main_send
    \/ main_wait
    \/ main_sleep
    \/ main_graceful
    \/ \E w \in Workers, res \in {"ok", "err"} : worker_finish(w, res)
    \/ \E w \in Workers : worker_shutdown(w)

SpecMain == InitMain /\ [][NextMain]_vars

\* Fair scheduling of the tasks: the main task is polled again whenever it
\* can go on (the send, the wait loop, its sleep timer, the return), and a
\* spawned task whose shutdown receiver holds the token is polled again.  The
\* work of a worker (the upstream exchange) need not ever complete.
FairMain ==
    /\ WF_vars(main_send)
    /\ WF_vars(main_wait)
    /\ WF_vars(main_sleep)
    /\ WF_vars(main_graceful)
    /\ \A w \in Workers : WF_vars(worker_shutdown(w))

SpecMainFair == InitMain /\ [][NextMain]_vars /\ FairMain

----------------------------------------------------------------------------

\* What follows the reading of the list.
Rest ==
    \/ \E label \in Labels : new_multiple_def(label)
    \/ new_check
    \/ \E t \in Labels : check_iter(t)
    \/ check_ok
    \/ \E t \in Labels : resolve_call(t)
    \/ \E t \in Labels, how \in {"ok", "err"} : leaf_complete(t, how)
    \/ resolve_step

\* Lists whose hybrids name the labels entries may define.
Next ==
    \/ \E label \in Labels, up \in Upstream(Labels) : new_insert(label, up)
    \/ Rest

Spec == Init /\ [][Next]_vars

\* Lists whose hybrids may also name a label that no entry defines.
NextX ==
    \/ \E label \in Labels, up \in Upstream(RefLabels) : new_insert(label, up)
    \/ Rest

SpecX == Init /\ [][NextX]_vars

----------------------------------------------------------------------------
(* Properties of the registry *)

\* Upstreams::new has returned.
Returned == pc \in {"done", "resolve", "resolved"}
Accepted == Returned /\ result = OkUnit

\* The members a label names in ups: none for a leaf or an undefined label.
Members(ups, x) ==
    IF x \in DOMAIN ups /\ ups[x].hybrid THEN Range(ups[x].v) ELSE {}

Hybrids(ups) == {h \in DOMAIN ups : ups[h].hybrid}

RECURSIVE Closure(_, _, _)
Closure(ups, S, k) ==
    IF k = 0 THEN S
    ELSE Closure(ups, S \cup UNION {Members(ups, y) : y \in S}, k - 1)

\* The labels reachable from x along one or more hybrid->member edges.
Below(ups, x) == Closure(ups, Members(ups, x), Cardinality(RefLabels))

AllDefined(ups) == \A h \in Hybrids(ups) : Range(ups[h].v) \subseteq DOMAIN ups
NoneEmpty(ups) == \A h \in Hybrids(ups) : ups[h].v # <<>>
Acyclic(ups) == \A x \in DOMAIN ups : x \notin Below(ups, x)

\* The entries read so far had pairwise different labels.
UniqueLabels == n = Cardinality(DOMAIN r)

\* C1: every list Upstreams::new accepts yields a registry in which every label
\* a hybrid names is defined, every hybrid has a member, and the hybrid->member
\* graph has no cycle.
C1_AcceptedIsValid ==
    Accepted => AllDefined(r) /\ NoneEmpty(r) /\ Acyclic(r)

\* An accepted registry with a hybrid nested in a hybrid.
C1_Witness ==
    /\ pc = "done"
    /\ result = OkUnit
    /\ \E h \in Hybrids(r) : \E m \in Members(r, h) : m \in Hybrids(r)

\* No hybrid names a label twice (a hybrid's members are an ordered set).
MembersDistinct(ups) ==
    \A h \in Hybrids(ups) : Cardinality(Range(ups[h].v)) = Len(ups[h].v)

\* C2: a list with unique labels whose hybrids are non-empty and name only
\* defined labels, and whose hybrid->member graph is acyclic, is accepted;
\* HybridRecursion is returned only when the graph has a cycle.  Stated for
\* the lists in which no hybrid names a label twice, so that two paths to a
\* label are two different paths of the graph.
C2_ValidIsAccepted ==
    (Returned /\ UniqueLabels /\ MembersDistinct(r))
        => /\ (AllDefined(r) /\ NoneEmpty(r) /\ Acyclic(r)) => result = OkUnit
           /\ result.kind = "HybridRecursion" => ~Acyclic(r)

\* a = hybrid[b], b = hybrid[a], and nothing else.
CycleAB == [x \in {"a", "b"} |-> IF x = "a" THEN Hybrid(<<"b">>) ELSE Hybrid(<<"a">>)]
BuiltCycleAB == pc = "done" /\ n = 2 /\ r = CycleAB

\* C3 as stated: for a = hybrid[b], b = hybrid[a] the construction fails with
\* HybridRecursion(a), whatever order check iterates the map in.
C3_AlwaysRecursionA ==
    BuiltCycleAB => result = Err("HybridRecursion", "a")

\* C3 amended: for a = hybrid[b], b = hybrid[a] the construction fails in the
\* first iteration of check, with HybridRecursion carrying the label that
\* iteration started from (a or b).
C3_RecursionAtFirstRoot ==
    BuiltCycleAB =>
        /\ root \in {"a", "b"}
        /\ todo = {"a", "b"}
        /\ result = Err("HybridRecursion", root)

\* The map yielded b first and the error names b.
C3_Witness ==
    BuiltCycleAB /\ root = "b" /\ result = Err("HybridRecursion", "b")

EmptyHybrids(ups) == {h \in Hybrids(ups) : ups[h].v = <<>>}

\* C4: a list holding a hybrid without members is rejected, and when that
\* hybrid h is the list's only defect the error is EmptyHybrid(h).
C4_EmptyHybridRejected ==
    Returned =>
        /\ EmptyHybrids(r) # {} => result # OkUnit
        /\ \A h \in EmptyHybrids(r) :
               (UniqueLabels /\ AllDefined(r) /\ Acyclic(r) /\ EmptyHybrids(r) = {h})
                   => result = Err("EmptyHybrid", h)

\* C5: when two entries share a label, Upstreams::new returns MultipleDef with
\* the label of the first entry that repeats an earlier one, at that entry and
\* before check runs; MissingTag, EmptyHybrid and HybridRecursion are reported
\* only for lists of unique labels.
C5_MultipleDefFirst ==
    /\ ~UniqueLabels =>
           /\ pc = "done"
           /\ result = Err("MultipleDef", u)
           /\ u \in DOMAIN r
           /\ n = Cardinality(DOMAIN r) + 1
           /\ todo = {} /\ root = "-"
    /\ result.kind = "MultipleDef" => ~UniqueLabels
    /\ result.kind \in GraphErrors => UniqueLabels

\* A duplicate label in a list that also holds an empty hybrid.
C5_Witness ==
    /\ result.kind = "MultipleDef"
    /\ n = 3
    /\ EmptyHybrids(r) # {}

\* The labels hybrids name that no entry defines.
Dangling(ups) == UNION {Range(ups[h].v) : h \in Hybrids(ups)} \ DOMAIN ups

\* C6: a list in which a hybrid names an undefined label is rejected, and when
\* that reference is the list's only defect the error is MissingTag carrying
\* the undefined label.
C6_MissingTagRejected ==
    Returned =>
        /\ Dangling(r) # {} => result # OkUnit
        /\ \A x \in Dangling(r) :
               (UniqueLabels /\ NoneEmpty(r) /\ Acyclic(r) /\ Dangling(r) = {x})
                   => result = Err("MissingTag", x)

----------------------------------------------------------------------------
(* Properties of resolve *)

Resolving == pc \in {"resolve", "resolved"}

\* The hybrids resolve(tag, msg) reaches.
Called == ({tag} \cup Below(r, tag)) \cap Hybrids(r)

\* The member's own resolution has produced a response / an error.
Succeeded(m) == out[m].st = "ok" \/ (m \in DOMAIN r /\ ~r[m].hybrid /\ leaf[m] = "ok")
Failed(m) == out[m].st = "err" \/ (m \in DOMAIN r /\ ~r[m].hybrid /\ leaf[m] = "err")

\* C7: for every hybrid H of an accepted registry, once a member's resolution
\* has succeeded resolve(H, Q) does not return an error, and what it returns is
\* a success carrying the response of a member that succeeded; a member that
\* failed earlier does not turn the result into an error.
C7_FirstSuccessWins ==
    Resolving => \A h \in Called :
        /\ (\E m \in Members(r, h) : Succeeded(m)) => out[h].st # "err"
        /\ (\E m \in Members(r, h) : out[m].st = "ok") => out[h].st = "ok"
        /\ out[h].st = "ok" =>
               \E m \in Members(r, h) : out[m].st = "ok" /\ out[m].by = out[h].by
        /\ (pc = "resolved" /\ h = tag /\ \E m \in Members(r, h) : Succeeded(m))
               => out[h].st = "ok"

\* The hybrid's second member failed, its first succeeded later, the hybrid
\* returned the first member's response.
C7_Witness ==
    /\ pc = "resolved"
    /\ tag \in Hybrids(r)
    /\ Len(r[tag].v) = 2
    /\ out[r[tag].v[2]].st = "err"
    /\ out[r[tag].v[1]].st = "ok"
    /\ out[tag] = out[r[tag].v[1]]

\* C8: for every hybrid H of an accepted registry, nested ones included, when
\* every member's resolution has failed resolve(H, Q) returns an error, and it
\* never returns a success.
C8_AllFailIsError ==
    Resolving => \A h \in Called :
        /\ (\A m \in Members(r, h) : out[m].st = "err") => out[h].st = "err"
        /\ (\A m \in Members(r, h) : Failed(m)) => out[h].st # "ok"

\* A hybrid whose only member is a hybrid, and both returned an error.
C8_Witness ==
    /\ pc = "resolved"
    /\ tag \in Hybrids(r)
    /\ out[tag].st = "err"
    /\ \E m \in Members(r, tag) : m \in Hybrids(r) /\ out[m].st = "err"

----------------------------------------------------------------------------
(* Properties of the shutdown *)

\* The main task has taken the Ctrl-C branch of its select!.
ShutdownSeen ==
    \/ mpc \in {"send", "wait", "sleep", "graceful"}
    \/ mpc = "exit_ok" /\ sigint

\* The shutdown token has been sent (or sending it failed).
TokenSent ==
    \/ mpc \in {"wait", "sleep", "graceful"}
    \/ mpc = "exit_ok" /\ sigint
    \/ \E w \in DOMAIN mail : mail[w]

\* C9: once the main task has observed Ctrl-C, no datagram is received
\* and no worker task is spawned or subscribed to the shutdown channel any
\* more; the accept loop is gone before the token is sent.
C9_NoAcceptAfterShutdown ==
    /\ [](TokenSent => spc = "dropped")
    /\ [][ShutdownSeen =>
            /\ spc' = spc
            /\ lastrecv' = lastrecv
            /\ Spawned' = Spawned
            /\ rx_cnt' <= rx_cnt]_vars

\* Ctrl-C was observed right after a datagram had been received, with its
\* worker still running.
C9_Witness ==
    /\ mpc = "wait"
    /\ lastrecv = "ok"
    /\ Live # {}
    /\ spc = "dropped"

\* C10: the main task does not report the graceful shutdown and return while a
\* worker task is alive: the receiver count is the number of live worker
\* tasks, the wait is skipped only when the send found no receiver, and the
\* wait loop is left only at receiver count zero.
C10_NoExitWhileWorkerLive ==
    /\ [](mpc # "off" => rx_cnt = Cardinality(Live))
    /\ [](mpc \in {"graceful", "exit_ok"} => Live = {})
    /\ [][(mpc' = "graceful" /\ mpc # "graceful")
            => (mpc \in {"send", "wait"} /\ rx_cnt = 0)]_vars

\* The shutdown was reported after the wait: one worker had completed, another
\* was aborted by the token.
C10_Witness ==
    /\ mpc = "graceful"
    /\ \E w \in Workers : workers[w] = "aborted"
    /\ \E w \in Workers : workers[w] = "done"

\* ------------------------------------------------------------------------
\* Claims about the rate limit of the accept loop.

RECURSIVE SumOver(_, _)
\* The sum of f over the finite set S of its arguments.
SumOver(f, S) ==
    IF S = {} THEN 0
    ELSE LET i == CHOOSE j \in S : TRUE
         IN  f[i] + SumOver(f, S \ {i})

\* The instants of the one-second window that starts at instant k: one second
\* is `ratelimit` replenish intervals.
Window(k) == {i \in 0..MaxTime : k <= i /\ i < k + ratelimit}

\* The number of worker tasks spawned within the window that starts at k.
InWindow(k) == SumOver(dispatched, Window(k))

Serving == {"logger", "ready", "bind", "serve", "send", "wait", "sleep", "graceful"}

\* C12: with --validate the socket is never bound and serve never starts;
\* main returns Ok exactly when init built the router, and Err when the
\* configuration could not be loaded, parsed or turned into a router.
C12_ValidateOnly ==
    /\ [](validate =>
            /\ socket = "unbound"
            /\ spc = "none"
            /\ mpc \notin Serving
            /\ (mpc = "exit_ok" => built = "ok")
            /\ (mpc = "exit_err" => built # "ok")
            /\ (built = "ok" => mpc \in {"validate", "exit_ok"}))
    /\ [][(validate /\ mpc = "validate") => mpc' = "exit_ok"]_vars

\* A validate-only run that has returned Ok after building the router.
C12_Witness ==
    /\ validate
    /\ mpc = "exit_ok"
    /\ built = "ok"
    /\ socket = "unbound"

\* C13 as stated: the "ready" line is logged only after the socket has been
\* bound: no run logs it and then fails to bind.
C13_ReadyOnlyAfterBind ==
    ready => socket # "failed"

\* ------------------------------------------------------------------------
\* Claims about the accept loop.

\* C14: a failed recv_from never ends serve: the step that logs the error
\* spawns no task, subscribes no receiver, does not touch the limiter and
\* leaves the loop at its receive, where the next datagram is still accepted.
C14_RecvErrorContinues ==
    /\ [][nerr' > nerr =>
            /\ lastrecv' = "err"
            /\ spc = "recv" /\ spc' = "recv"
            /\ mpc' = mpc
            /\ workers' = workers
            /\ rx_cnt' = rx_cnt
            /\ awaits' = awaits /\ tat' = tat]_vars
    /\ []((nerr > 0 /\ mpc = "serve" /\ spc = "recv"
             /\ \E w \in Workers : workers[w] = "idle")
            => ENABLED serve_recv(TRUE))

\* After the receive errors a datagram was received and its worker spawned.
C14_Witness ==
    /\ nerr = MaxErrs
    /\ lastrecv = "ok"
    /\ spc = "limit"
    /\ Live # {}

\* C18: every successful receive is followed by exactly one spawn, the task
\* being subscribed to the shutdown channel in the same iteration before it
\* runs, and by exactly one await of the limiter before the next receive; a
\* failed receive is followed by neither.
C18_OneSpawnOneAwait ==
    /\ [](spc = "recv" => awaits = Cardinality(Spawned))
    /\ [](spc = "limit" => awaits + 1 = Cardinality(Spawned))
    /\ [][lastrecv' = "ok" /\ (lastrecv # "ok" \/ Spawned' # Spawned) =>
            /\ spc = "recv" /\ spc' = "limit"
            /\ \E w \in Workers \ Spawned :
                 /\ Spawned' = Spawned \cup {w}
                 /\ workers'[w] = "run"
            /\ rx_cnt' = rx_cnt + 1
            /\ awaits' = awaits]_vars
    /\ [][Spawned' # Spawned => (lastrecv' = "ok" /\ spc = "recv")]_vars
    /\ [][awaits' # awaits =>
            /\ spc = "limit" /\ spc' = "recv"
            /\ awaits' = awaits + 1
            /\ Spawned' = Spawned]_vars
    /\ [][nerr' # nerr => (Spawned' = Spawned /\ awaits' = awaits)]_vars

\* Three datagrams and a receive error so far: three tasks spawned, the limiter
\* awaited after the first two, the third await still to come.
C18_Witness ==
    /\ Cardinality(Spawned) = 3
    /\ awaits = 2
    /\ spc = "limit"
    /\ nerr = 1

\* ------------------------------------------------------------------------
\* Claims about the shutdown.

\* C16: under fair scheduling, once the shutdown token is sent every worker
\* task in flight terminates (it completes or takes its shutdown branch), and
\* the main task, having observed Ctrl-C, leaves the wait loop and returns.
C16_ShutdownCompletes ==
    /\ \A w \in Workers :
         (mail[w] /\ workers[w] = "run") ~> (workers[w] \in {"done", "aborted"})
    /\ (mpc \in {"send", "wait", "sleep"}) ~> (mpc = "exit_ok" /\ Live = {})

\* main has returned after a shutdown in which two workers were in flight and
\* at least one of them was ended by the token.
C16_Witness ==
    /\ mpc = "exit_ok"
    /\ sigint
    /\ Cardinality(Spawned) >= 2
    /\ \E w \in Workers : workers[w] = "aborted"
    /\ \A w \in Workers : ~mail[w]

\* C17: a worker task ended by its shutdown branch has sent no response and
\* sends none afterwards: a response is sent only in the step in which the
\* worker branch completes, and an ended task does nothing more.
C17_AbortedSentNothing ==
    /\ [](\A w \in Workers : workers[w] = "aborted" => w \notin sent)
    /\ [](\A w \in sent : workers[w] = "done")
    /\ [][\A w \in Workers :
            /\ (w \in sent' /\ w \notin sent) =>
                 (workers[w] = "run" /\ workers'[w] = "done")
            /\ workers[w] \in {"done", "aborted"} =>
                 (workers'[w] = workers[w] /\ (w \in sent' <=> w \in sent))]_vars

\* One worker was ended by the shutdown token while another had responded.
C17_Witness ==
    \E w, x \in Workers :
        /\ workers[w] = "aborted"
        /\ w \notin sent
        /\ x \in sent
        /\ w < x

\* ------------------------------------------------------------------------
\* Claims about the error of a hybrid, the order independence of the
\* validation and the safety of resolve.

\* The hybrids of the registry whose resolve has returned an error.
FailedHybrids ==
    IF pc \in {"resolve", "resolved"}
    THEN {h \in DOMAIN r : r[h].hybrid /\ out[h].st = "err"}
    ELSE {}

\* The index of the member of hybrid h whose failure the race saw last: the
\* one that completed in the latest poll and, among those of one poll, the
\* last in the declared order.
LastSeen(h) ==
    LET v == r[h].v IN
    CHOOSE i \in 1..Len(v) :
        \A j \in 1..Len(v) :
            \/ round[v[j]] < round[v[i]]
            \/ round[v[j]] = round[v[i]] /\ j <= i

\* C15 as stated: when every member of a hybrid fails, resolve returns the
\* error of the last member in the declared order, whichever failed last.
C15_ErrorOfLastDeclared ==
    \A h \in FailedHybrids : out[h] = out[r[h].v[Len(r[h].v)]]

\* C15: when every member of a hybrid fails, resolve returns the error of the
\* member whose failure the race saw last; members found failed in one poll
\* are taken in the declared order.
C15_ErrorOfLastSeen ==
    \A h \in FailedHybrids :
        /\ \A i \in 1..Len(r[h].v) : out[r[h].v[i]].st = "err"
        /\ out[h] = out[r[h].v[LastSeen(h)]]

\* A hybrid of two members failed with the error of its first member, which
\* failed after the second.
C15_Witness ==
    /\ pc = "resolved"
    /\ \E h \in FailedHybrids :
         /\ h = tag
         /\ Len(r[h].v) = 2
         /\ round[r[h].v[1]] > round[r[h].v[2]]
         /\ out[h] = out[r[h].v[1]]
         /\ out[h] # out[r[h].v[2]]

\* The bijections of 1..k, and the orders a hybrid's member list can be put in.
Bij(k) == {f \in [1..k -> 1..k] : \A i, j \in 1..k : f[i] = f[j] => i = j}
Perms(v) == {[i \in 1..Len(v) |-> v[f[i]]] : f \in Bij(Len(v))}

\* Every root of ups passes traverse: the outcome of check for the iteration
\* order that reaches every root.
PassesAll(ups) == \A t \in DOMAIN ups : traverse(ups, {}, t).res = OkUnit

\* C19: whether Upstreams::new accepts a list is a function of the list: of
\* the orders in which check may iterate the map, all accept or all reject,
\* and putting a hybrid's members in another order changes neither.
C19_OutcomeOrderFree ==
    Returned =>
        /\ result = OkUnit <=> (UniqueLabels /\ PassesAll(r))
        /\ pc = "done" =>
             \A h \in Hybrids(r) : \A p \in Perms(r[h].v) :
                 PassesAll([r EXCEPT ![h].v = p]) <=> PassesAll(r)

\* A rejected list of which check had passed one root before it reached the
\* failing one: another iteration order fails at once.
C19_Witness ==
    /\ pc = "done"
    /\ result.kind \in GraphErrors
    /\ todo # DOMAIN r
    /\ \E t \in DOMAIN r : traverse(r, {}, t).res = OkUnit
    /\ \E h \in Hybrids(r) : Len(r[h].v) = 2 /\ r[h].v[1] # r[h].v[2]

\* The labels resolve(t, msg) makes a call for: t and all below it.
Reached(ups, t) == {t} \cup Below(ups, t)

\* Every leaf resolve(t, msg) reaches has returned.
LeavesDone(ups, t) ==
    \A x \in Reached(ups, t) \cap DOMAIN ups :
        ups[x].hybrid \/ leaf[x] # "pending"

\* C20: for a registry Upstreams::new accepted and a label t it defines,
\* resolve(t, ...) looks up only defined labels, races only non-empty member
\* lists and never calls itself for a label it is already below: no call
\* panics, and the poll made once every reached leaf has returned returns.
C20_ResolveSafe ==
    /\ Accepted =>
         \A t \in DOMAIN r :
             /\ Reached(r, t) \subseteq DOMAIN r
             /\ \A h \in Reached(r, t) \cap Hybrids(r) : r[h].v # <<>>
             /\ \A x \in Reached(r, t) : x \notin Below(r, x)
    /\ Resolving =>
         /\ tag \in DOMAIN r
         /\ \A x \in Labels : out[x].st # "panic"
         /\ \A x \in Labels : out[x].st # "pending" => x \in Reached(r, tag)
    /\ (pc = "resolve" /\ LeavesDone(r, tag)) =>
         resolve_poll(r, tag, [inner |-> inner, out |-> out], leaf).out[tag].st
             \in {"ok", "err"}
    /\ pc = "resolved" => out[tag].st \in {"ok", "err"}

\* resolve has returned for a hybrid that holds a hybrid: two levels of
\* calls, every leaf below has failed.
C20_Witness ==
    /\ pc = "resolved"
    /\ \E m \in Members(r, tag) : m \in Hybrids(r)
    /\ LeavesDone(r, tag)
    /\ out[tag].st = "err"

====
